---- MODULE Spec2Model ----
(***************************************************************************)
(* Model of the crawl controller of aws-crawler (src/crawl.py): the        *)
(* Crawler class (construction, crawl, crawl_all, reset_client, close)     *)
(* driven by main(), together with the two ledger files                    *)
(* (crawled-urls.txt, failed-urls.txt), the buffered file handles through  *)
(* which they are appended, and the directory of result artifacts.         *)
(*                                                                         *)
(* Text is a sequence of one-character strings.  A ledger file is a        *)
(* sequence of lines, each line ending with the newline character, so      *)
(* that what crawl writes and what __init__ parses are computed on the     *)
(* characters.  A buffered handle keeps the lines written through it in    *)
(* xxxBuf until they reach the file: at close() all of them, at an         *)
(* abnormal end of the process any prefix of them (whole lines).           *)
(***************************************************************************)
EXTENDS Integers, Sequences, FiniteSets, TLC

\* ---------------------------------------------------------------- bounds
MaxBacklog == 2      \* longest input file made of any of the input lines
MaxSession == 3      \* longest input file of InitSession and InitCounters
MaxRuns == 2         \* number of processes started one after the other
MaxThreshold == 2    \* largest value of the two per-restart thresholds

\* ------------------------------------------------------- input alphabets
NL == "\n"
Whitespace == {" ", NL}

\* The raw lines an input file is made of (without their newline).
\* "a " is "a" once stripped; "d/a" has the last path segment "a"; "a,b"
\* holds the separator of the failure ledger.
PlainLines == { <<"a", " ">>, <<"d", "/", "a">> }
InputLines == PlainLines \cup { <<"a", ",", "b">> }

InvocationStatuses == {403, 500}     \* non-200 values of response["StatusCode"]
PayloadStatuses == {200, 403, 404}   \* values of data["status_code"]

\* ------------------------------------------------------------ text helpers
RECURSIVE LStrip(_)
LStrip(s) ==
    IF s = <<>> THEN s
    ELSE IF Head(s) \in Whitespace THEN LStrip(Tail(s)) ELSE s

RECURSIVE RStrip(_)
RStrip(s) ==
    IF s = <<>> THEN s
    ELSE IF s[Len(s)] \in Whitespace THEN RStrip(SubSeq(s, 1, Len(s) - 1)) ELSE s

\* str.strip()
Strip(s) == RStrip(LStrip(s))

\* Positions of the character c in s.
Occurrences(s, c) == {i \in 1..Len(s) : s[i] = c}

Min(S) == CHOOSE x \in S : \A y \in S : x <= y
Max(S) == CHOOSE x \in S : \A y \in S : x >= y

\* s.split(c)[0]: the text before the first c, the whole text without c.
SplitFirst(s, c) ==
    IF Occurrences(s, c) = {} THEN s
    ELSE SubSeq(s, 1, Min(Occurrences(s, c)) - 1)

\* s.split(c)[-1]: the text after the last c, the whole text without c.
LastField(s, c) ==
    IF Occurrences(s, c) = {} THEN s
    ELSE SubSeq(s, Max(Occurrences(s, c)) + 1, Len(s))

Digit(d) == <<"0", "1", "2", "3", "4", "5", "6", "7", "8", "9">>[d + 1]

\* Decimal formatting of a natural number, as an f-string does it.
RECURSIVE ToDigits(_)
ToDigits(n) ==
    IF n < 10 THEN <<Digit(n)>>
    ELSE Append(ToDigits(n \div 10), Digit(n % 10))

\* example_name_func
example_name_func(url) == LastField(url, "/") \o <<".json">>

\* ------------------------------------------------------------ ledger text
\* f"{url}\n" and f"{url},{data['status_code']}\n"
CrawledLine(url) == url \o <<NL>>
FailedLine(url, code) == url \o <<",">> \o ToDigits(code) \o <<NL>>

SeqToSet(s) == {s[i] : i \in 1..Len(s)}

\* set(line.strip() for line in f)
LoadCrawled(file) == {Strip(file[i]) : i \in 1..Len(file)}

\* set(line.split(",")[0] for line in f)
LoadFailed(file) == {SplitFirst(file[i], ",") : i \in 1..Len(file)}

\* self.urls: one stripped entry for every line of the input file
LoadUrls(file) == [i \in 1..Len(file) |-> Strip(file[i])]

\* A handle opened in "w" mode instead: the file is emptied.
OpenTruncate(file) == <<>>

\* open(filename, "a"): the content the handle starts to write after
OpenAppend(file) == file

\* A write that puts the text before what was written earlier.
WriteFirst(buf, lines) == lines \o buf

\* file.write(text) on a handle: the text comes after what was written before
Write(buf, lines) == buf \o lines

\* ------------------------------------------------------------- responses
\* What client.invoke can produce for one call: it raises, or it returns a
\* response with a StatusCode, with or without the FunctionError key, and
\* (StatusCode 200) a payload that is not JSON, is JSON without
\* "status_code", or carries a status_code.
Response(raises, sc, fe, dec, hs, code) ==
    [raises |-> raises, StatusCode |-> sc, hasFunctionError |-> fe,
     decodable |-> dec, hasStatus |-> hs, status_code |-> code]

Responses ==
    {Response(TRUE, 0, FALSE, FALSE, FALSE, 0)}
    \cup {Response(FALSE, sc, fe, FALSE, FALSE, 0) :
             sc \in InvocationStatuses, fe \in BOOLEAN}
    \cup {Response(FALSE, 200, FALSE, FALSE, FALSE, 0),
          Response(FALSE, 200, TRUE, TRUE, FALSE, 0)}
    \cup {Response(FALSE, 200, FALSE, TRUE, TRUE, code) :
             code \in PayloadStatuses}

NoResponse == Response(FALSE, 0, FALSE, FALSE, FALSE, 0)

\* The dictionary json.loads returns for the page fetched from url.
Data(url, resp) == [status_code |-> resp.status_code, page |-> url]

\* ---------------------------------------------------------------- crawl
\* The effect of one call of Crawler.crawl: whether it raised, the status
\* code it returned, the lines it wrote through the two handles and the
\* artifact files it wrote.
Effect(raised, status, crawledW, failedW, artifactW) ==
    [raised |-> raised, status |-> status, crawledW |-> crawledW,
     failedW |-> failedW, artifactW |-> artifactW]

\* The failure ledger written in test mode too.
crawlRecordsInTest(url, tst, resp) ==
    IF resp.raises
    THEN Effect(TRUE, 0, <<>>, <<>>, {})
    ELSE IF resp.StatusCode # 200
    THEN IF resp.hasFunctionError
         THEN Effect(FALSE, resp.StatusCode, <<>>, <<>>, {})
         ELSE Effect(TRUE, 0, <<>>, <<>>, {})
    ELSE IF ~resp.decodable
    THEN Effect(TRUE, 0, <<>>, <<>>, {})
    ELSE IF ~resp.hasStatus
    THEN Effect(FALSE, resp.StatusCode, <<>>, <<>>, {})
    ELSE IF resp.status_code # 200
    THEN Effect(FALSE, resp.status_code, <<>>,
                IF resp.status_code # 403
                THEN <<FailedLine(url, resp.status_code)>> ELSE <<>>,
                {})
    ELSE Effect(FALSE, resp.status_code,
                IF ~tst THEN <<CrawledLine(url)>> ELSE <<>>,
                <<>>,
                {<<example_name_func(url), Data(url, resp)>>})

crawl(url, tst, resp) ==
    IF resp.raises
    THEN Effect(TRUE, 0, <<>>, <<>>, {})
    ELSE IF resp.StatusCode # 200
    THEN IF resp.hasFunctionError
         THEN Effect(FALSE, resp.StatusCode, <<>>, <<>>, {})
         ELSE Effect(TRUE, 0, <<>>, <<>>, {})
    ELSE IF ~resp.decodable
    THEN Effect(TRUE, 0, <<>>, <<>>, {})
    ELSE IF ~resp.hasStatus
    THEN Effect(FALSE, resp.StatusCode, <<>>, <<>>, {})
    ELSE IF resp.status_code # 200
    THEN Effect(FALSE, resp.status_code, <<>>,
                IF ~tst /\ resp.status_code # 403
                THEN <<FailedLine(url, resp.status_code)>> ELSE <<>>,
                {})
    ELSE Effect(FALSE, resp.status_code,
                IF ~tst THEN <<CrawledLine(url)>> ELSE <<>>,
                <<>>,
                {<<example_name_func(url), Data(url, resp)>>})

\* A file opened with "w" whose json.dump did not finish.
Partial == [status_code |-> 0, page |-> <<>>]

\* The ledger line written before the artifact file.
InterruptedLedgerFirst(url, tst, resp, complete) ==
    Effect(TRUE, 0, IF ~tst THEN <<CrawledLine(url)>> ELSE <<>>, <<>>, {})

\* What a call of crawl on a payload of status 200 has done when the process
\* is killed inside it after open(..., "w") (line 184) and before the write
\* through crawled_urls_file (line 189): the artifact file, whole or not,
\* and no ledger line.
Interrupted(url, tst, resp, complete) ==
    Effect(TRUE, 0, <<>>, <<>>,
           {<<example_name_func(url), IF complete THEN Data(url, resp) ELSE Partial>>})

\* ------------------------------------------------------- session counters
\* The part of one loop iteration of crawl_all after crawl returned:
\* the two counters and the number of reset_client calls.
Counters(cr, cf, n) == [count_requests |-> cr, count_forbidden |-> cf, resets |-> n]

\* The request threshold compared with > instead of >=.
AfterCrawlLateReset(status, cr, cf, maxr, maxf) ==
    IF status = 403
    THEN IF cf + 1 >= maxf
         THEN Counters(0, 0, 1)
         ELSE Counters(cr, cf + 1, 0)
    ELSE IF cr + 1 > maxr
         THEN Counters(0, 0, 1)
         ELSE Counters(cr + 1, cf, 0)

\* A return of 403 counted as a request too.
AfterCrawlCountsBlocked(status, cr, cf, maxr, maxf) ==
    IF status = 403
    THEN IF cf + 1 >= maxf
         THEN Counters(0, 0, 1)
         ELSE Counters(cr + 1, cf + 1, 0)
    ELSE IF cr + 1 >= maxr
         THEN Counters(0, 0, 1)
         ELSE Counters(cr + 1, cf, 0)

\* The block threshold compared with > instead of >=.
AfterCrawlStrict(status, cr, cf, maxr, maxf) ==
    IF status = 403
    THEN IF cf + 1 > maxf
         THEN Counters(0, 0, 1)
         ELSE Counters(cr, cf + 1, 0)
    ELSE IF cr + 1 >= maxr
         THEN Counters(0, 0, 1)
         ELSE Counters(cr + 1, cf, 0)

AfterCrawl(status, cr, cf, maxr, maxf) ==
    IF status = 403
    THEN IF cf + 1 >= maxf
         THEN Counters(0, 0, 1)
         ELSE Counters(cr, cf + 1, 0)
    ELSE IF cr + 1 >= maxr
         THEN Counters(0, 0, 1)
         ELSE Counters(cr + 1, cf, 0)

\* time.sleep(sleep) at the end of an iteration, which the continue of a
\* 403 does not reach: the seconds of pacing.
Pacing(status, seconds) == IF status = 403 THEN 0 ELSE seconds

\* The failure ledger left out of the test.
SkippedOnlyCrawled(url, crawled, failed) == url \in crawled

\* if url in self.crawled_urls or url in self.failed_urls: continue
Skipped(url, crawled, failed) == url \in crawled \/ url \in failed

\* ------------------------------------------------------------------ state
VARIABLES
    inputFile,                  \* the lines of the input file
    crawledFile, failedFile,    \* the lines of the two ledger files on disk
    artifacts,                  \* crawled/: the set of <<file name, content>>
    phase,                      \* where the process started by main() is
    runs,                       \* processes started so far
    resumedFrom,                \* how the process before this one ended
    urls,                       \* self.urls
    crawled_urls, failed_urls,  \* self.crawled_urls, self.failed_urls
    handles,                    \* the two append handles: none, open, closed
    crawledBuf, failedBuf,      \* lines written through a handle, not yet in the file
    test,                       \* crawl_all(test=...)
    max_requests_per_restart, max_forbidden_per_restart,
    idx,                        \* entries of self.urls the loop has gone through
    count_requests, count_forbidden,
    last,                       \* history: what the most recent step of the run did
    blockedSinceReset,          \* history: 403 returns since the last reset_client
    got403, gotOther,           \* history: URLs whose payload status was 403 / was
                                \* something else in the run
    sleep,                      \* crawl_all(sleep=...)
    slept,                      \* history: seconds of pacing in the most recent step
    requestsSinceReset,         \* history: other returns since the last reset_client
    invoked,                    \* history: the URLs crawl was called for in the run
    gotNoStatus                 \* history: URLs for which crawl returned without a
                                \* payload status in the run

disk == <<inputFile, crawledFile, failedFile, artifacts>>
memory == <<urls, crawled_urls, failed_urls>>
config == <<max_requests_per_restart, max_forbidden_per_restart, sleep>>
counters == <<count_requests, count_forbidden, blockedSinceReset, requestsSinceReset>>
seen == <<got403, gotOther, gotNoStatus>>
vars == <<inputFile, crawledFile, failedFile, artifacts, phase, runs, resumedFrom,
          urls, crawled_urls, failed_urls, handles, crawledBuf, failedBuf, test,
          max_requests_per_restart, max_forbidden_per_restart, idx,
          count_requests, count_forbidden, last, blockedSinceReset, got403, gotOther,
          sleep, slept, requestsSinceReset, invoked, gotNoStatus>>

Last(op, url, resp, status, resets) ==
    [op |-> op, url |-> url, resp |-> resp, status |-> status, resets |-> resets]

NoStep == Last("none", <<>>, NoResponse, 0, 0)

RECURSIVE SeqsUpTo(_, _)
SeqsUpTo(S, n) ==
    IF n = 0 THEN {<<>>}
    ELSE LET shorter == SeqsUpTo(S, n - 1)
         IN shorter \cup {Append(s, x) : s \in {t \in shorter : Len(t) = n - 1}, x \in S}

Thresholds == 1..MaxThreshold

\* The values of the sleep parameter: no pacing (the default), one second.
Pacings == {0, 1}

\* Before main() is started for the first time: no ledger entry, no artifact.
Fresh ==
    /\ crawledFile = <<>>
    /\ failedFile = <<>>
    /\ artifacts = {}
    /\ phase = "Idle"
    /\ runs = 0
    /\ resumedFrom = "Idle"
    /\ urls = <<>>
    /\ crawled_urls = {}
    /\ failed_urls = {}
    /\ handles = "none"
    /\ crawledBuf = <<>>
    /\ failedBuf = <<>>
    /\ test = FALSE
    /\ idx = 0
    /\ count_requests = 0
    /\ count_forbidden = 0
    /\ last = NoStep
    /\ blockedSinceReset = 0
    /\ got403 = {}
    /\ gotOther = {}
    /\ slept = 0
    /\ requestsSinceReset = 0
    /\ invoked = <<>>
    /\ gotNoStatus = {}

\* Any input file of up to MaxBacklog lines, both thresholds at MaxThreshold.
Init ==
    /\ inputFile \in SeqsUpTo(InputLines, MaxBacklog)
    /\ max_requests_per_restart = MaxThreshold
    /\ max_forbidden_per_restart = MaxThreshold
    /\ sleep = 0
    /\ Fresh

\* Longer input files of plain lines, both thresholds at MaxThreshold.
InitSession ==
    /\ inputFile \in SeqsUpTo(PlainLines, MaxSession)
    /\ max_requests_per_restart = MaxThreshold
    /\ max_forbidden_per_restart = MaxThreshold
    /\ sleep \in Pacings
    /\ Fresh

\* The input files of InitSession, crawl_all called with its default sleep=0.
InitCompleting == InitSession /\ sleep = 0

\* Longer input files that repeat one line, any two thresholds.
InitCounters ==
    /\ inputFile \in SeqsUpTo({<<"a", " ">>}, MaxSession)
    /\ max_requests_per_restart \in Thresholds
    /\ max_forbidden_per_restart \in Thresholds
    /\ sleep = 0
    /\ Fresh

NoProcess == phase \in {"Idle", "Completed", "Exited", "Crashed"}

\* Crawler.__init__ : load the backlog and the two ledgers, open the handles.
Construct ==
    /\ NoProcess
    /\ runs < MaxRuns
    /\ runs' = runs + 1
    /\ resumedFrom' = phase
    /\ phase' = "Constructed"
    /\ urls' = LoadUrls(inputFile)
    /\ crawled_urls' = LoadCrawled(crawledFile)
    /\ failed_urls' = LoadFailed(failedFile)
    /\ handles' = "open"
    /\ crawledBuf' = <<>>
    /\ failedBuf' = <<>>
    /\ idx' = 0
    /\ test' = FALSE
    /\ last' = NoStep
    /\ count_requests' = 0
    /\ count_forbidden' = 0
    /\ blockedSinceReset' = 0
    /\ requestsSinceReset' = 0
    /\ slept' = 0
    /\ invoked' = <<>>
    /\ UNCHANGED <<disk, config, seen>>

\* Crawler.__init__ raises (the input file cannot be read, a ledger file
\* cannot be opened): main() ends before crawl_all is called.
ConstructFail ==
    /\ NoProcess
    /\ runs < MaxRuns
    /\ runs' = runs + 1
    /\ resumedFrom' = phase
    /\ phase' = "Aborted"
    /\ urls' = <<>>
    /\ crawled_urls' = {}
    /\ failed_urls' = {}
    /\ handles' = "none"
    /\ crawledBuf' = <<>>
    /\ failedBuf' = <<>>
    /\ idx' = 0
    /\ test' = FALSE
    /\ last' = Last("construct_error", <<>>, NoResponse, 0, 0)
    /\ count_requests' = 0
    /\ count_forbidden' = 0
    /\ blockedSinceReset' = 0
    /\ requestsSinceReset' = 0
    /\ slept' = 0
    /\ invoked' = <<>>
    /\ got403' = {}
    /\ gotOther' = {}
    /\ gotNoStatus' = {}
    /\ UNCHANGED <<disk, config>>

\* crawl_all is entered: the counters are initialised.
CrawlAllStart ==
    /\ phase = "Constructed"
    /\ \E tst \in BOOLEAN : test' = tst
    /\ phase' = "Running"
    /\ idx' = 0
    /\ count_requests' = 0
    /\ count_forbidden' = 0
    /\ blockedSinceReset' = 0
    /\ requestsSinceReset' = 0
    /\ slept' = 0
    /\ invoked' = <<>>
    /\ got403' = {}
    /\ gotOther' = {}
    /\ gotNoStatus' = {}
    /\ UNCHANGED <<disk, memory, config, runs, resumedFrom, handles, crawledBuf,
                   failedBuf, last>>

\* A skipped URL counted as a request.
AfterSkipCounted(cr, cf) == Counters(cr + 1, cf, 0)

\* continue (line 210): the iteration ends with the counters as they are
\* and no call of reset_client.
AfterSkip(cr, cf) == Counters(cr, cf, 0)

\* One loop iteration on a URL that is in a loaded ledger set.
Skip ==
    /\ phase = "Running"
    /\ idx < Len(urls)
    /\ Skipped(urls[idx + 1], crawled_urls, failed_urls)
    /\ idx' = idx + 1
    /\ LET cnt == AfterSkip(count_requests, count_forbidden)
       IN /\ count_requests' = cnt.count_requests
          /\ count_forbidden' = cnt.count_forbidden
          /\ last' = Last("skip", urls[idx + 1], NoResponse, 0, cnt.resets)
    /\ slept' = 0
    /\ UNCHANGED <<disk, memory, config, blockedSinceReset, requestsSinceReset, seen,
                   invoked, runs, resumedFrom, phase, handles, crawledBuf, failedBuf,
                   test>>

\* open(name, "w") and json.dump: the file of that name now holds the data.
WriteArtifacts(store, written) ==
    {f \in store : \A w \in written : w[1] # f[1]} \cup written

\* One loop iteration on a URL that is in neither loaded set: crawl, then
\* the counters and the identity reset.
CrawlStep ==
    /\ phase = "Running"
    /\ idx < Len(urls)
    /\ ~Skipped(urls[idx + 1], crawled_urls, failed_urls)
    /\ \E resp \in Responses :
         LET url == urls[idx + 1]
             eff == crawl(url, test, resp)
             cnt == AfterCrawl(eff.status, count_requests, count_forbidden,
                               max_requests_per_restart, max_forbidden_per_restart)
         IN /\ invoked' = Append(invoked, url)
            /\ IF eff.raised
               THEN /\ phase' = "Aborted"
                    /\ last' = Last("crawl", url, resp, 0, 0)
                    /\ slept' = 0
                    /\ UNCHANGED <<disk, counters, seen, idx, crawledBuf, failedBuf>>
               ELSE /\ phase' = phase
                    /\ idx' = idx + 1
                    /\ crawledBuf' = Write(crawledBuf, eff.crawledW)
                    /\ failedBuf' = Write(failedBuf, eff.failedW)
                    /\ artifacts' = WriteArtifacts(artifacts, eff.artifactW)
                    /\ count_requests' = cnt.count_requests
                    /\ count_forbidden' = cnt.count_forbidden
                    /\ last' = Last("crawl", url, resp, eff.status, cnt.resets)
                    /\ blockedSinceReset' =
                           IF cnt.resets > 0 THEN 0
                           ELSE IF eff.status = 403 THEN blockedSinceReset + 1
                           ELSE blockedSinceReset
                    /\ got403' = IF resp.hasStatus /\ resp.status_code = 403
                                 THEN got403 \cup {url} ELSE got403
                    /\ gotOther' = IF resp.hasStatus /\ resp.status_code # 403
                                   THEN gotOther \cup {url} ELSE gotOther
                    /\ gotNoStatus' = IF ~resp.hasStatus
                                      THEN gotNoStatus \cup {url} ELSE gotNoStatus
                    /\ requestsSinceReset' =
                           IF cnt.resets > 0 THEN 0
                           ELSE IF eff.status = 403 THEN requestsSinceReset
                           ELSE requestsSinceReset + 1
                    /\ slept' = Pacing(eff.status, sleep)
                    /\ UNCHANGED <<inputFile, crawledFile, failedFile>>
    /\ UNCHANGED <<memory, config, runs, resumedFrom, handles, test>>

\* The loop is over: crawl_all returns to main().
CrawlAllReturn ==
    /\ phase = "Running"
    /\ idx = Len(urls)
    /\ phase' = "Returned"
    /\ UNCHANGED <<disk, memory, config, counters, seen, runs, resumedFrom, handles,
                   crawledBuf, failedBuf, test, idx, last, slept, invoked>>

\* The process is over: nothing of its memory is left.
ProcessEnds ==
    /\ urls' = <<>>
    /\ crawled_urls' = {}
    /\ failed_urls' = {}
    /\ test' = FALSE
    /\ idx' = 0
    /\ count_requests' = 0
    /\ count_forbidden' = 0
    /\ blockedSinceReset' = 0
    /\ requestsSinceReset' = 0
    /\ slept' = 0
    /\ invoked' = <<>>
    /\ last' = NoStep

\* Crawler.close : both handles are closed, what they buffered is written;
\* main() returns.
Close ==
    /\ phase = "Returned"
    /\ phase' = "Completed"
    /\ crawledFile' = OpenAppend(crawledFile) \o crawledBuf
    /\ failedFile' = OpenAppend(failedFile) \o failedBuf
    /\ crawledBuf' = <<>>
    /\ failedBuf' = <<>>
    /\ handles' = "closed"
    /\ ProcessEnds
    /\ UNCHANGED <<inputFile, artifacts, config, seen, runs, resumedFrom>>

\* The process ends without close(): any prefix of what a handle buffered
\* has reached its file, the rest is lost.
Lose(newPhase) ==
    /\ phase' = newPhase
    /\ \E k \in 0..Len(crawledBuf) :
         crawledFile' = OpenAppend(crawledFile) \o SubSeq(crawledBuf, 1, k)
    /\ \E k \in 0..Len(failedBuf) :
         failedFile' = OpenAppend(failedFile) \o SubSeq(failedBuf, 1, k)
    /\ crawledBuf' = <<>>
    /\ failedBuf' = <<>>
    /\ handles' = "none"
    /\ ProcessEnds
    /\ got403' = {}
    /\ gotOther' = {}
    /\ gotNoStatus' = {}
    /\ UNCHANGED <<inputFile, artifacts, config, runs, resumedFrom>>

\* The exception that left crawl_all (or __init__) ends main().
Exit ==
    /\ phase = "Aborted"
    /\ Lose("Exited")

\* The process is killed while the handles are open.
Crash ==
    /\ phase \in {"Constructed", "Running", "Returned"}
    /\ Lose("Crashed")

\* The process is killed inside crawl, between the artifact write and the
\* ledger write.
CrashInCrawl ==
    /\ phase = "Running"
    /\ idx < Len(urls)
    /\ ~Skipped(urls[idx + 1], crawled_urls, failed_urls)
    /\ \E resp \in Responses, complete \in BOOLEAN :
         LET url == urls[idx + 1]
             eff == Interrupted(url, test, resp, complete)
             cb == Write(crawledBuf, eff.crawledW)
             fb == Write(failedBuf, eff.failedW)
         IN /\ crawl(url, test, resp).artifactW # {}
            /\ artifacts' = WriteArtifacts(artifacts, eff.artifactW)
            /\ \E k \in 0..Len(cb) :
                 crawledFile' = OpenAppend(crawledFile) \o SubSeq(cb, 1, k)
            /\ \E k \in 0..Len(fb) :
                 failedFile' = OpenAppend(failedFile) \o SubSeq(fb, 1, k)
    /\ phase' = "Crashed"
    /\ crawledBuf' = <<>>
    /\ failedBuf' = <<>>
    /\ handles' = "none"
    /\ ProcessEnds
    /\ got403' = {}
    /\ gotOther' = {}
    /\ gotNoStatus' = {}
    /\ UNCHANGED <<inputFile, config, runs, resumedFrom>>

Next ==
    \/ Construct
    \/ ConstructFail
    \/ CrawlAllStart
    \/ Skip
    \/ CrawlStep
    \/ CrawlAllReturn
    \/ Close
    \/ Exit
    \/ Crash
    \/ CrashInCrawl

Spec == Init /\ [][Next]_vars

SpecSession == InitSession /\ [][Next]_vars

SpecCounters == InitCounters /\ [][Next]_vars

\* Every invocation returns and the loop goes on: no loop step is put off
\* for ever.
SpecCompleting ==
    InitCompleting /\ [][Next]_vars /\ WF_vars(Skip \/ CrawlStep \/ CrawlAllReturn)

\* ----------------------------------------------------------------- claims
\* The ledgers as the entries written make them: a URL is in the success
\* ledger when its line is in the file, in the failure ledger when a line
\* made of it and a status code is.
InSuccessLedger(url, file) == CrawledLine(url) \in SeqToSet(file)
InFailureLedger(url, file) ==
    \E code \in PayloadStatuses : FailedLine(url, code) \in SeqToSet(file)

SuccessEntries(url, file) == {i \in 1..Len(file) : file[i] = CrawledLine(url)}
FailureEntries(url, file) ==
    {i \in 1..Len(file) : \E code \in PayloadStatuses : file[i] = FailedLine(url, code)}

IsPrefix(s, t) == Len(s) <= Len(t) /\ SubSeq(t, 1, Len(s)) = s

RECURSIVE IsSubsequence(_, _)
IsSubsequence(s, t) ==
    IF s = <<>> THEN TRUE
    ELSE IF t = <<>> THEN FALSE
    ELSE IF Head(s) = Head(t) THEN IsSubsequence(Tail(s), Tail(t))
    ELSE IsSubsequence(s, Tail(t))

\* The step was a call of crawl whose payload carried this status.
PayloadStatusIs(step, code) ==
    step.op = "crawl" /\ step.resp.hasStatus /\ step.resp.status_code = code

\* C1: a process started after a completed run issues no invocation for a
\* URL that has an entry in the success or the failure ledger file.
C1_Idempotent ==
    [][(CrawlStep /\ resumedFrom = "Completed") =>
          /\ ~InSuccessLedger(urls[idx + 1], crawledFile)
          /\ ~InFailureLedger(urls[idx + 1], failedFile)]_vars

\* C2: after a non-test call of crawl whose payload status is 200 there is
\* an artifact named name_func(url) and the URL is exactly once in the
\* success ledger (what is in the file and what was written after it).
C2_SuccessOnce ==
    (phase \in {"Running", "Returned"} /\ ~test /\ PayloadStatusIs(last, 200)) =>
        /\ \E f \in artifacts : f[1] = example_name_func(last.url)
        /\ Cardinality(SuccessEntries(last.url, crawledFile \o crawledBuf)) = 1

\* C3: a non-test call of crawl whose payload status is neither 200 nor 403
\* writes no artifact, and the run has then appended exactly one entry for
\* the URL to the failure ledger.
C3_FailureOnce ==
    [][(CrawlStep /\ ~test /\ \E code \in PayloadStatuses \ {200, 403} :
                                  PayloadStatusIs(last', code)) =>
          /\ artifacts' = artifacts
          /\ Cardinality(FailureEntries(last'.url, failedBuf')) = 1]_vars

\* C4: a URL whose payload status was 403 in a run is in neither ledger when
\* that single run has completed, and the next run does not skip it.
C4_BlockedRetried ==
    /\ (phase = "Completed" /\ runs = 1) =>
          \A url \in got403 \ gotOther :
             /\ ~InSuccessLedger(url, crawledFile)
             /\ ~InFailureLedger(url, failedFile)
    /\ (phase = "Constructed" /\ resumedFrom = "Completed") =>
          \A url \in got403 \ gotOther : ~Skipped(url, crawled_urls, failed_urls)

C6_Released ==
    (phase = "Completed" \/ (phase = "Aborted" /\ last.op # "construct_error")) =>
        /\ handles = "closed"
        /\ crawledBuf = <<>>
        /\ failedBuf = <<>>

\* C7: what crawl has written to a ledger is in the file, so that a crash
\* of the process loses no entry.
C7_Durable ==
    [][phase' = "Crashed" =>
          /\ crawledFile' = crawledFile \o crawledBuf
          /\ failedFile' = failedFile \o failedBuf]_vars

\* C8: main() is aborted only by the construction, never by an invocation.
C8_NoAbort == phase = "Aborted" => last.op = "construct_error"

\* C9: in every step each ledger file before the step is a prefix of the
\* file after the step.
C9_AppendOnly ==
    [][/\ IsPrefix(crawledFile, crawledFile')
       /\ IsPrefix(failedFile, failedFile')]_vars

\* A second completed run has put the line of the one URL it crawled after
\* the line the first run left in the success ledger file.
C9_Witness ==
    /\ phase = "Completed"
    /\ runs = 2
    /\ resumedFrom = "Completed"
    /\ Len(crawledFile) = 2
    /\ crawledFile[1] # crawledFile[2]
    /\ gotOther = {Strip(crawledFile[2])}

\* C10: the lines a run has written to the success ledger are, in this
\* order, lines of the backlog entries gone through; a call of crawl whose
\* payload status is 200 or 403 leaves the failure ledger as it is.
C10_BacklogOrder ==
    [][/\ (phase' \in {"Running", "Returned"}) =>
             IsSubsequence(crawledBuf', [i \in 1..idx' |-> CrawledLine(urls'[i])])
       /\ (CrawlStep /\ (PayloadStatusIs(last', 200) \/ PayloadStatusIs(last', 403))) =>
             /\ failedBuf' = failedBuf
             /\ failedFile' = failedFile]_vars

\* Backlog [A, B, C] with payload statuses 200, 403, 200: A then C written
\* to the success ledger, nothing to the failure ledger.
C10_Witness ==
    /\ phase = "Returned"
    /\ ~test
    /\ Len(urls) = 3
    /\ urls[1] # urls[3]
    /\ crawledBuf = <<CrawledLine(urls[1]), CrawledLine(urls[3])>>
    /\ got403 = {urls[2]}
    /\ failedBuf = <<>>
    /\ failedFile = <<>>

\* C11: when the first, non-test run has gone through its backlog, every URL
\* it wrote to the success ledger has an artifact named name_func(url) that
\* holds the payload of that URL, and there are as many artifact files as
\* there are such URLs.
C11_OneArtifactEach ==
    (phase = "Returned" /\ runs = 1 /\ ~test) =>
        LET succeeded == {url \in SeqToSet(urls) :
                             CrawledLine(url) \in SeqToSet(crawledBuf)}
        IN /\ \A url \in succeeded :
                 <<example_name_func(url), [status_code |-> 200, page |-> url]>>
                     \in artifacts
           /\ Cardinality(artifacts) = Cardinality(succeeded)

C13_OnlyPayload403Blocks ==
    [][(CrawlStep /\ phase' = "Running") =>
          /\ count_forbidden' > count_forbidden => PayloadStatusIs(last', 403)
          /\ last'.resp.StatusCode # 200 =>
                \/ /\ last'.resets = 0
                   /\ count_requests' = count_requests + 1
                   /\ count_forbidden' = count_forbidden
                \/ /\ last'.resets = 1
                   /\ count_requests + 1 >= max_requests_per_restart]_vars

\* C14: a call of crawl whose invocation failed, or whose payload has no
\* status_code, writes nothing to either ledger and no artifact; a URL for
\* which a completed run got nothing but such returns is not skipped by the
\* next run.
C14_TransportNotRecorded ==
    [][/\ (CrawlStep /\ ~last'.resp.hasStatus) =>
             /\ crawledBuf' = crawledBuf /\ failedBuf' = failedBuf
             /\ crawledFile' = crawledFile /\ failedFile' = failedFile
             /\ artifacts' = artifacts
       /\ (phase' = "Constructed" /\ resumedFrom' = "Completed") =>
             \A url \in gotNoStatus' \ (gotOther' \cup got403') :
                ~Skipped(url, crawled_urls', failed_urls')]_vars

\* C15: a loop step on a URL that is in a ledger set loaded by __init__
\* calls neither crawl nor reset_client nor time.sleep and leaves the two
\* counters, the ledger files, what was written to them and the artifacts
\* as they are.
C15_SkipNoEffect ==
    [][(phase = "Running" /\ phase' = "Running" /\ idx' = idx + 1
          /\ (urls[idx + 1] \in crawled_urls \/ urls[idx + 1] \in failed_urls)) =>
          /\ last'.op = "skip"
          /\ invoked' = invoked
          /\ last'.resets = 0
          /\ slept' = 0
          /\ count_requests' = count_requests
          /\ count_forbidden' = count_forbidden
          /\ crawledBuf' = crawledBuf /\ failedBuf' = failedBuf
          /\ crawledFile' = crawledFile /\ failedFile' = failedFile
          /\ artifacts' = artifacts]_vars

\* A run with pacing, resumed after a completed run, has invoked its first
\* URL and skipped the second, which is in the failure ledger.
C15_Witness ==
    /\ phase = "Running"
    /\ resumedFrom = "Completed"
    /\ sleep = 1
    /\ idx = 2
    /\ last.op = "skip"
    /\ last.url \in failed_urls
    /\ Len(invoked) = 1
    /\ count_requests = 1
    /\ slept = 0

\* C16: in every state, a crash inside crawl included, each line of the
\* success ledger (in the file or written after it) is the line of a URL
\* that has an artifact named name_func(url).
C16_EntryHasArtifact ==
    \A line \in SeqToSet(crawledFile) \cup SeqToSet(crawledBuf) :
       \E f \in artifacts : f[1] = example_name_func(Strip(line))

\* After a crash one URL has its entry and its artifact, another its
\* artifact only.
C16_Witness ==
    /\ phase = "Crashed"
    /\ Len(crawledFile) = 1
    /\ Cardinality({f[1] : f \in artifacts}) = 2

\* The backlog entries, in order, whose URL is in neither loaded ledger set.
NotInLedgers(entries, crawled, failed) ==
    LET Eligible(url) == url \notin crawled /\ url \notin failed
    IN SelectSeq(entries, Eligible)

C18_TestWritesNothing ==
    [][(test /\ phase \in {"Running", "Returned"}) =>
          /\ crawledBuf' = <<>> /\ failedBuf' = <<>>
          /\ crawledFile' = crawledFile /\ failedFile' = failedFile
          /\ LoadCrawled(crawledFile') = crawled_urls
          /\ LoadFailed(failedFile') = failed_urls]_vars

\* A test run after a completed run has gone through a backlog of which it
\* got a payload status 200 and another that is neither 200 nor 403.
C18_Witness ==
    /\ phase = "Returned"
    /\ test
    /\ resumedFrom = "Completed"
    /\ Len(invoked) = 2
    /\ artifacts # {}
    /\ PayloadStatusIs(last, 404)
    /\ crawledFile = <<>> /\ failedFile = <<>>

\* C19: whenever the loop is at the start of an iteration both counters
\* are at least 0 and below their thresholds; a loop step leaves a counter
\* as it is, adds to it, or zeroes it together with a call of reset_client;
\* a step calls reset_client at most once.
C19_CounterBounds ==
    [][/\ phase' = "Running" =>
             /\ 0 <= count_forbidden' /\ count_forbidden' < max_forbidden_per_restart'
             /\ 0 <= count_requests' /\ count_requests' < max_requests_per_restart'
       /\ (phase = "Running" /\ phase' \in {"Running", "Returned"}) =>
             /\ last'.resets \in {0, 1}
             /\ count_forbidden' >= count_forbidden
                   \/ (count_forbidden' = 0 /\ last'.resets = 1)
             /\ count_requests' >= count_requests
                   \/ (count_requests' = 0 /\ last'.resets = 1)]_vars

\* Both counters are one below thresholds of 2 after two invocations.
C19_Witness ==
    /\ phase = "Running"
    /\ max_requests_per_restart = 2
    /\ max_forbidden_per_restart = 2
    /\ idx = 2
    /\ count_requests = 1
    /\ count_forbidden = 1

\* C20: when a process has been constructed, every backlog URL that has an
\* entry in the success ledger file is in crawled_urls and every backlog URL
\* that has an entry in the failure ledger file is in failed_urls.
C20_RoundTrip ==
    phase = "Constructed" =>
        \A url \in SeqToSet(urls) :
           /\ InSuccessLedger(url, crawledFile) => url \in crawled_urls
           /\ InFailureLedger(url, failedFile) => url \in failed_urls

====
